---- MODULE Spec2Model ----
(***************************************************************************)
(* Sol radial mind map: the gesture recognizer (GestureHandler) and the    *)
(* orbital interaction engine (RadialInterface).                           *)
(*                                                                         *)
(* Spec        : GestureHandler driven by mouse and touch events and by    *)
(*               the browser's timers.                                     *)
(* SpecRadial  : RadialInterface driven by gesture notifications, gesture  *)
(*               ends, animation frames and the re-center timer.           *)
(* SpecStray   : the touch recognizer, with touchmove and touchend events  *)
(*               for contacts it does not know.                            *)
(* SpecCancel  : presses, releases and cancels of fingers at rest.         *)
(* SpecPage    : the touch recognizer on a page where a finger can also be *)
(*               put down outside the recognizer's element.                *)
(* SpecEmitter : on, off and emit of the recognizer's EventEmitter.        *)
(* SpecMultiplier: the speed scaling of a drag update on its own, for      *)
(*               every distance of the dragged element from the centre.    *)
(* SpecMomentum: a drag on a ring at rest, its release, and every frame    *)
(*               of the momentum animation; pending frames are run.        *)
(* SpecNavigate: taps and the re-center timers they start; time passes     *)
(*               and due timers run.                                       *)
(* SpecProject : navigation by taps, the home button and the parent        *)
(*               breadcrumb, new nodes, and the load of another tree.      *)
(*                                                                         *)
(* Time is Date.now() in milliseconds.  Lengths are CSS pixels.  In the    *)
(* recognizer a comparison of a Math.sqrt(...) with a threshold is         *)
(* computed on the squares, which is the same comparison.  In the          *)
(* interface angles and velocities are fixed-point numbers, Unit to the    *)
(* radian and to the px/ms, and stored distances are fixed-point numbers,  *)
(* DistUnit to the pixel; products are truncated toward zero.              *)
(***************************************************************************)
EXTENDS Integers, Sequences, FiniteSets, TLC

(* ------------------------------ bounds -------------------------------- *)
StartTime == 1000
TickMs == 100
MaxTime == 1700
MaxPresses == 2
MaxCancelPresses == MaxPresses + 1

(* ----------------------- GestureHandler constants ---------------------- *)
DOUBLE_TAP_DELAY == 300
LONG_PRESS_DELAY == 500
TAP_THRESHOLD == 10
PINCH_THRESHOLD == 20

VARIABLES
  now,               \* Date.now()
  touches,           \* GestureHandler.touches: Map<number, TouchState>
  tapTimeout,        \* GestureHandler.tapTimeout (NoTimer is null)
  longPressTimeout,  \* GestureHandler.longPressTimeout (NoTimer is null)
  lastTapTime,       \* GestureHandler.lastTapTime
  lastTapPosition,   \* GestureHandler.lastTapPosition
  timers,            \* the browser's pending setTimeout callbacks of the recognizer
  device,            \* the pointing device of the session: "mouse" or "touch"
  fingers,           \* the browser's TouchEvent.touches: the fingers on the surface
  emitted,           \* history: terminal gestures emitted so far, by kind
  lastEmits,         \* history: the gestures emitted by the last handler or callback
  nTaps,             \* history: number of releases classified as tap candidates
  prevTap,           \* history: time and position of the last tap candidate
  pairRel,           \* history: how the last tap candidate relates to the one before
  waiting,           \* history: tap candidates whose `tap` is armed and not emitted
  ia,                \* history: number of the current interaction
  terminals,         \* history: terminal gestures per interaction
  panned,            \* history: interactions in which a pan was emitted
  staleFired,        \* history: a timer that survived a clearTimers() emitted
  presses,           \* history: number of presses so far
  strayEffect,       \* history: the last event named only unknown contacts and had an effect
  cancelled,         \* history: a touchcancel was handled and nothing was pressed since
  multi,             \* history: two contacts were down together and not all are lifted yet
  events,            \* EventEmitter.events: Map<string, EventCallback[]>
  subscribed,        \* history: per event, the callbacks given to on() and not to off() since
  delivered,         \* history: the last emit() and the callback invocations it made
  scaling,           \* the last speed scaling computed on its own: input and results
  centerNode,        \* RadialInterface.viewState.centerNode
  bubbles,           \* RadialInterface.bubbles: Map<string, PositionedBubble>
  dragState,         \* RadialInterface.dragState
  recenter,          \* the pending setTimeout callbacks of animateToCenter
  loops,             \* the pending momentumAnimation frames: currentVelocity of each
  loopHist,          \* history: per pending animation, its frames so far and its first
  lastFrame,         \* history: the momentumAnimation frame of the last step
  work,              \* history: budgeted rotation updates and re-center requests so far
  lastRot,           \* history: the updateOrbitalPositions call of the last step
  lastDrag,          \* history: the angle delta resolved by the last step
  lastSelect,        \* history: the selection request of the last step
  peakDistance,      \* history: largest dragDistance since dragState was last reset
  dragTurn,          \* history: direction (sign) of the last rotation the drag applied
  dragEndedAt,       \* history: time of the last gesture end that ended a drag
  lastOut,           \* history: the events RadialInterface emitted in the last step
  currentProject,    \* RadialInterface.currentProject: the loaded tree
  lastNav            \* history: the navigation of the last step, the last request

\* the recognizer's state without the clock
gstate == <<touches, tapTimeout, longPressTimeout, lastTapTime, lastTapPosition,
            timers, device, fingers, emitted, lastEmits, nTaps, prevTap, pairRel,
            waiting, ia, terminals, panned, staleFired, presses, strayEffect,
            cancelled, multi>>

rvars == <<centerNode, bubbles, dragState, recenter, loops, loopHist, lastFrame,
           work, lastRot, lastDrag, lastSelect, peakDistance, dragTurn,
           dragEndedAt, lastOut, currentProject, lastNav>>

\* the listeners of the EventEmitter the recognizer extends
estate == <<events, subscribed, delivered>>

\* a computation of the interface applied on its own to inputs of its domain
fstate == <<scaling>>

vars == <<now, gstate, rvars, estate, fstate>>

(* ------------------------------ values -------------------------------- *)
NoTimer == 0
MouseId == 0
TouchIds == {1, 2}
\* a finger on the page outside the recognizer's element (the bottom navigation)
OutsideId == 3
Undefined == "undefined"
Pt(x, y) == [x |-> x, y |-> y]
Points == {Pt(0, 0), Pt(6, 8), Pt(40, 0)}
NavPoint == Pt(200, 600)
GestureKinds == {"tap", "doubleTap", "longPress", "pan", "pinch"}
TerminalKinds == {"tap", "doubleTap", "longPress"}

Sq(n) == n * n
Dist2(p, q) == Sq(p.x - q.x) + Sq(p.y - q.y)

\* Math.sqrt(d2) < threshold
SqrtLess(d2, threshold) == d2 < Sq(threshold)
\* Math.sqrt(d2) > threshold
SqrtMore(d2, threshold) == d2 > Sq(threshold)

(* --------------------------- the browser ------------------------------ *)
\* The handle window.setTimeout returns next: a positive number that names no
\* pending timer and is held by no handle field.
FreshHandle(h) ==
  CHOOSE n \in 1..(Cardinality(h.timers) + 3) :
    /\ n \notin {tm.id : tm \in h.timers} \cup {h.tapTimeout, h.longPressTimeout}
    /\ \A m \in 1..(n - 1) :
         m \in {tm.id : tm \in h.timers} \cup {h.tapTimeout, h.longPressTimeout}

\* window.setTimeout: the callback is pending until it is due.
\* history: contact is the contact a long-press timer was armed for (0: none)
SetTimeout(h, kind, delay, p, cand, t) ==
  [h EXCEPT !.timers = @ \cup {[id |-> FreshHandle(h), kind |-> kind, due |-> t + delay,
                               pos |-> p, ia |-> h.ia, cand |-> cand, stale |-> FALSE,
                               contact |-> IF kind = "longPress"
                                           THEN CHOOSE c \in DOMAIN h.touches : TRUE
                                           ELSE 0]}]

\* window.clearTimeout: a handle that is not pending is ignored.
ClearTimeout(h, id) == [h EXCEPT !.timers = {tm \in @ : tm.id # id}]

(* ------------------------- GestureHandler ----------------------------- *)
EmitGesture(h, type, p, dx, dy, scale) ==
  [h EXCEPT !.emits = Append(@, [type |-> type, position |-> p, deltaX |-> dx,
                                 deltaY |-> dy, scale |-> scale])]

ClearTimers(h) ==
  LET h1 == IF h.tapTimeout # NoTimer
            THEN [ClearTimeout(h, h.tapTimeout) EXCEPT !.tapTimeout = NoTimer]
            ELSE h
      h2 == IF h1.longPressTimeout # NoTimer
            THEN [ClearTimeout(h1, h1.longPressTimeout) EXCEPT !.longPressTimeout = NoTimer]
            ELSE h1
  IN  \* history: what is still pending after this cancellation point is stale
      [h2 EXCEPT !.timers = {[tm EXCEPT !.stale = TRUE] : tm \in @}]

\* event.touches is undefined for a MouseEvent: event.touches[0] throws a TypeError
\* and nothing is armed.  For a TouchEvent touches[0] is read when the timer is armed.
StartLongPressTimer(h, evTouches, t) ==
  IF evTouches = Undefined THEN h
  ELSE LET touch == evTouches[1]
           h1 == SetTimeout(h, "longPress", LONG_PRESS_DELAY, touch.pos, 0, t)
       IN [h1 EXCEPT !.longPressTimeout = FreshHandle(h)]

\* a slip: the gap is compared with the movement threshold
IsDoubleTap_WrongWindow(timeSinceLastTap, d2) ==
  timeSinceLastTap < TAP_THRESHOLD /\ SqrtLess(d2, TAP_THRESHOLD)

IsDoubleTap(timeSinceLastTap, d2) ==
  timeSinceLastTap < DOUBLE_TAP_DELAY /\ SqrtLess(d2, TAP_THRESHOLD)

\* history: one more tap candidate, released at p at time t; paired says that
\* it completed a double tap, afterDouble that the candidate before it did
Candidate(h, p, t, paired) ==
  [h EXCEPT !.nTaps = @ + 1,
            !.prevTap = [time |-> t, pos |-> p, paired |-> paired,
                         afterDouble |-> h.prevTap.paired],
            !.pairRel = IF h.nTaps = 0 THEN "none"
                        ELSE IF t - h.prevTap.time < DOUBLE_TAP_DELAY
                                /\ SqrtLess(Dist2(p, h.prevTap.pos), TAP_THRESHOLD)
                             THEN "close"
                        ELSE IF t - h.prevTap.time > DOUBLE_TAP_DELAY /\ p = h.prevTap.pos
                             THEN "late"
                        ELSE "other"]

\* a double tap becomes the baseline of the next tap
HandleTap_KeepsBaseline(h, p, t) ==
  LET timeSinceLastTap == t - h.lastTapTime
      d2 == Dist2(p, h.lastTapPosition)
      n == h.nTaps + 1
  IN IF IsDoubleTap(timeSinceLastTap, d2)
     THEN LET h1 == IF h.tapTimeout # NoTimer
                    THEN [ClearTimeout(h, h.tapTimeout) EXCEPT !.tapTimeout = NoTimer]
                    ELSE h
              h2 == EmitGesture(h1, "doubleTap", p, 0, 0, Undefined)
          IN [Candidate(h2, p, t, TRUE) EXCEPT !.lastTapTime = t,
                                               !.lastTapPosition = p,
                                               !.waiting = @ \ {n - 1}]
     ELSE LET h1 == SetTimeout(h, "tap", DOUBLE_TAP_DELAY, p, n, t)
          IN [Candidate(h1, p, t, FALSE) EXCEPT !.tapTimeout = FreshHandle(h),
                                                !.lastTapTime = t,
                                                !.lastTapPosition = p,
                                                !.waiting = @ \cup {n}]

HandleTap(h, p, t) ==
  LET timeSinceLastTap == t - h.lastTapTime
      d2 == Dist2(p, h.lastTapPosition)
      n == h.nTaps + 1
  IN IF IsDoubleTap(timeSinceLastTap, d2)
     THEN LET h1 == IF h.tapTimeout # NoTimer
                    THEN [ClearTimeout(h, h.tapTimeout) EXCEPT !.tapTimeout = NoTimer]
                    ELSE h
              h2 == EmitGesture(h1, "doubleTap", p, 0, 0, Undefined)
          IN [Candidate(h2, p, t, TRUE) EXCEPT !.lastTapTime = 0,
                                         !.waiting = @ \ {n - 1}]
     ELSE LET h1 == SetTimeout(h, "tap", DOUBLE_TAP_DELAY, p, n, t)
          IN [Candidate(h1, p, t, FALSE) EXCEPT !.tapTimeout = FreshHandle(h),
                                         !.lastTapTime = t,
                                         !.lastTapPosition = p,
                                         !.waiting = @ \cup {n}]

IsTapRelease(d2, duration) ==
  SqrtLess(d2, TAP_THRESHOLD) /\ duration < LONG_PRESS_DELAY

ProcessTouchEnd(h, touch, t) ==
  LET touchState == h.touches[touch.id]
      d2 == Dist2(touch.pos, touchState.start)
      duration == t - touchState.startTime
  IN IF IsTapRelease(d2, duration) THEN HandleTap(h, touch.pos, t) ELSE h

MapSet(m, k, v) == [i \in DOMAIN m \cup {k} |-> IF i = k THEN v ELSE m[i]]
MapDelete(m, k) == [i \in DOMAIN m \ {k} |-> m[i]]
EmptyMap == [i \in {} |-> 0]

\* TouchState: currentX and currentY are written by the move handlers and read
\* nowhere, so the state keeps the start position and the start time.
NewTouchState(p, t) == [start |-> p, startTime |-> t]

RECURSIVE TouchStartEach(_, _, _)
TouchStartEach(h, changed, t) ==
  IF changed = <<>> THEN h
  ELSE TouchStartEach(
         [h EXCEPT !.touches = MapSet(@, Head(changed).id, NewTouchState(Head(changed).pos, t))],
         Tail(changed), t)

HandleTouchStart(h, changed, evTouches, t) ==
  LET h1 == TouchStartEach(h, changed, t)
      h2 == IF Cardinality(DOMAIN h1.touches) = 1
            THEN StartLongPressTimer(h1, evTouches, t) ELSE h1
  IN IF Cardinality(DOMAIN h2.touches) = 2 THEN ClearTimers(h2) ELSE h2

HandleSingleTouchMove(h, evTouches) ==
  LET touch == evTouches[1]
  IN IF touch.id \notin DOMAIN h.touches THEN h
     ELSE LET touchState == h.touches[touch.id]
              deltaX == touch.pos.x - touchState.start.x
              deltaY == touch.pos.y - touchState.start.y
          IN IF SqrtMore(Sq(deltaX) + Sq(deltaY), TAP_THRESHOLD)
             THEN EmitGesture(ClearTimers(h), "pan", touch.pos, deltaX, deltaY, Undefined)
             ELSE h

\* Math.abs(Math.sqrt(a2) - Math.sqrt(b2)) > threshold, on the squares
AbsSqrtDiffMore(a2, b2, threshold) ==
  LET hi == IF a2 >= b2 THEN a2 ELSE b2
      lo == IF a2 >= b2 THEN b2 ELSE a2
      rest == hi - lo - Sq(threshold)
  IN rest > 0 /\ Sq(rest) > 4 * Sq(threshold) * lo

HandleMultiTouchMove(h, evTouches) ==
  IF Len(evTouches) # 2 THEN h
  ELSE LET touch1 == evTouches[1]
           touch2 == evTouches[2]
       IN IF touch1.id \notin DOMAIN h.touches \/ touch2.id \notin DOMAIN h.touches THEN h
          ELSE LET current2 == Dist2(touch2.pos, touch1.pos)
                   initial2 == Dist2(h.touches[touch2.id].start, h.touches[touch1.id].start)
               IN IF AbsSqrtDiffMore(current2, initial2, PINCH_THRESHOLD)
                  THEN EmitGesture(h, "pinch",
                                   Pt((touch1.pos.x + touch2.pos.x) \div 2,
                                      (touch1.pos.y + touch2.pos.y) \div 2),
                                   0, 0, [current2 |-> current2, initial2 |-> initial2])
                  ELSE h

HandleTouchMove(h, changed, evTouches) ==
  LET h1 == h
  IN IF Cardinality(DOMAIN h1.touches) = 1 THEN HandleSingleTouchMove(h1, evTouches)
     ELSE IF Cardinality(DOMAIN h1.touches) = 2 THEN HandleMultiTouchMove(h1, evTouches)
     ELSE h1

RECURSIVE TouchEndEach(_, _, _)
TouchEndEach(h, changed, t) ==
  IF changed = <<>> THEN h
  ELSE LET touch == Head(changed)
           h1 == IF touch.id \in DOMAIN h.touches
                 THEN LET h0 == ProcessTouchEnd(h, touch, t)
                      IN [h0 EXCEPT !.touches = MapDelete(@, touch.id)]
                 ELSE h
       IN TouchEndEach(h1, Tail(changed), t)

HandleTouchEnd(h, changed, t) == ClearTimers(TouchEndEach(h, changed, t))

HandleTouchCancel(h) == [ClearTimers(h) EXCEPT !.touches = EmptyMap]

\* startLongPressTimer(event as any) throws on event.touches[0]; touches.set ran before
HandleMouseDown(h, p, t) ==
  StartLongPressTimer([h EXCEPT !.touches = MapSet(@, MouseId, NewTouchState(p, t))],
                      Undefined, t)

HandleMouseMove(h, p) ==
  IF MouseId \notin DOMAIN h.touches THEN h
  ELSE LET touchState == h.touches[MouseId]
           h1 == h
           deltaX == p.x - touchState.start.x
           deltaY == p.y - touchState.start.y
       IN IF SqrtMore(Sq(deltaX) + Sq(deltaY), TAP_THRESHOLD)
          THEN EmitGesture(ClearTimers(h1), "pan", p, deltaX, deltaY, Undefined)
          ELSE h1

HandleMouseUp(h, p, t) ==
  IF MouseId \notin DOMAIN h.touches THEN h
  ELSE LET touchState == h.touches[MouseId]
           d2 == Dist2(p, touchState.start)
           duration == t - touchState.startTime
           h1 == IF IsTapRelease(d2, duration) THEN HandleTap(h, p, t) ELSE h
       IN ClearTimers([h1 EXCEPT !.touches = MapDelete(@, MouseId)])

\* the callback of the single-tap timer (handleTap) and of the long-press timer
TimerCallback(h, tm) ==
  IF tm.kind = "tap"
  THEN [EmitGesture(h, "tap", tm.pos, 0, 0, Undefined) EXCEPT !.tapTimeout = NoTimer]
  ELSE EmitGesture(h, "longPress", tm.pos, 0, 0, Undefined)

(* ------------------------- state and steps ---------------------------- *)
GH == [touches |-> touches, tapTimeout |-> tapTimeout, longPressTimeout |-> longPressTimeout,
       lastTapTime |-> lastTapTime, lastTapPosition |-> lastTapPosition,
       timers |-> timers, nTaps |-> nTaps, prevTap |-> prevTap, pairRel |-> pairRel,
       waiting |-> waiting, ia |-> ia,
       emits |-> <<>>, stray |-> FALSE]

\* the event names no contact the recognizer knows
Stray(h, ids) == [h EXCEPT !.stray = (ids \cap DOMAIN touches = {})]

TimerIds(ts) == {tm.id : tm \in ts}

Kinds(emits) == {emits[i].type : i \in DOMAIN emits}
CountOf(emits, k) == Cardinality({i \in DOMAIN emits : emits[i].type = k})
NTerminal(emits) == Cardinality({i \in DOMAIN emits : emits[i].type \in TerminalKinds})

\* the handler's result becomes the state; gestures are attributed to interaction i
Put(h, i) ==
  /\ touches' = h.touches
  /\ tapTimeout' = h.tapTimeout
  /\ longPressTimeout' = h.longPressTimeout
  /\ lastTapTime' = h.lastTapTime
  /\ lastTapPosition' = h.lastTapPosition
  /\ timers' = h.timers
  /\ nTaps' = h.nTaps
  /\ prevTap' = h.prevTap
  /\ pairRel' = h.pairRel
  /\ waiting' = h.waiting
  /\ ia' = h.ia
  /\ lastEmits' = h.emits
  /\ emitted' = [k \in TerminalKinds |-> emitted[k] + CountOf(h.emits, k)]
  /\ terminals' = IF i = 0 \/ NTerminal(h.emits) = 0 THEN terminals
                  ELSE [terminals EXCEPT ![i] = @ + NTerminal(h.emits)]
  /\ panned' = IF "pan" \in Kinds(h.emits) THEN panned \cup {i} ELSE panned
  /\ strayEffect' = /\ h.stray
                    /\ \/ h.emits # <<>>
                       \/ h.touches # touches
                       \/ TimerIds(h.timers) # TimerIds(timers)
                       \/ h.tapTimeout # tapTimeout
                       \/ h.longPressTimeout # longPressTimeout
                       \/ h.lastTapTime # lastTapTime
                       \/ h.lastTapPosition # lastTapPosition

FingerIds == {fingers[i].id : i \in DOMAIN fingers}

\* sequences of distinct touches (id and position), one or two of them
OneTouch(ids) == {<<[id |-> a, pos |-> p]>> : a \in ids, p \in Points}
TouchLists(ids) ==
  OneTouch(ids) \cup
  {<<[id |-> c[1], pos |-> c[2]], [id |-> c[3], pos |-> c[4]]>> :
      c \in {d \in ids \X Points \X ids \X Points : d[1] # d[3]}}

\* the fingers that were put down on the recognizer's element
OnElement == {i \in DOMAIN fingers : fingers[i].id \in TouchIds}

\* one or two of the fingers on the element, where they are, in either order
Lifted ==
  {<<fingers[i]>> : i \in OnElement} \cup
  {<<fingers[c[1]], fingers[c[2]]>> :
      c \in {d \in OnElement \X OnElement : d[1] # d[2]}}

ListIds(l) == {l[i].id : i \in DOMAIN l}
SelectSeqNotIn(s, ids) == SelectSeq(s, LAMBDA f : f.id \notin ids)
PosIn(l, id) == (CHOOSE i \in DOMAIN l : l[i].id = id)

\* the fingers on the surface with the changed ones at their new positions
Moved(fs, changed) ==
  [i \in DOMAIN fs |-> IF fs[i].id \in ListIds(changed)
                       THEN changed[PosIn(changed, fs[i].id)] ELSE fs[i]]

\* two fingers are never on the same point of the surface
Apart(fs) == \A i, j \in DOMAIN fs : i # j => fs[i].pos # fs[j].pos

\* two contacts are, or have been, down together and a finger is still down
MultiAfter(h, fs) == fs # <<>> /\ (multi \/ Cardinality(DOMAIN h.touches) >= 2)

NewInteraction(h) == IF DOMAIN h.touches = {} THEN [h EXCEPT !.ia = @ + 1] ELSE h

Tick ==
  /\ now + TickMs <= MaxTime
  /\ \A tm \in timers : tm.due > now
  /\ now' = now + TickMs
  /\ lastEmits' = <<>>
  /\ strayEffect' = FALSE
  /\ UNCHANGED <<touches, tapTimeout, longPressTimeout, lastTapTime, lastTapPosition,
                 timers, device, fingers, emitted, nTaps, prevTap, pairRel, waiting,
                 ia, terminals, panned, staleFired, presses, cancelled, multi>>
  /\ UNCHANGED <<rvars, estate, fstate>>

FireTimer ==
  \E tm \in timers :
    /\ tm.due <= now
    /\ LET h == TimerCallback([GH EXCEPT !.timers = @ \ {tm}], tm)
           h1 == IF tm.kind = "tap" THEN [h EXCEPT !.waiting = @ \ {tm.cand}] ELSE h
       IN /\ Put(h1, tm.ia)
          /\ staleFired' = (staleFired \/ (tm.stale /\ h.emits # <<>>))
    /\ UNCHANGED <<now, device, fingers, presses, cancelled, multi>>
    /\ UNCHANGED <<rvars, estate, fstate>>

TouchStartWithin(maxPresses) ==
  /\ device = "touch"
  /\ \E changed \in TouchLists(TouchIds \ FingerIds) :
    /\ presses + Len(changed) <= maxPresses
    /\ presses' = presses + Len(changed)
    /\ fingers' = fingers \o changed
    /\ Apart(fingers')
    /\ LET h == HandleTouchStart(NewInteraction(GH), changed, fingers', now)
       IN /\ Put(h, h.ia)
          /\ multi' = MultiAfter(h, fingers')
    /\ cancelled' = FALSE
    /\ UNCHANGED <<now, device, staleFired>>
    /\ UNCHANGED <<rvars, estate, fstate>>

TouchStart == TouchStartWithin(MaxPresses)

TouchMove ==
  /\ device = "touch"
  /\ \E changed \in OneTouch(FingerIds \cap TouchIds) :
    /\ fingers' = Moved(fingers, changed)
    /\ fingers' # fingers
    /\ Apart(fingers')
    /\ Put(Stray(HandleTouchMove(GH, changed, fingers'), ListIds(changed)), ia)
    /\ UNCHANGED <<now, device, staleFired, presses, cancelled, multi>>
    /\ UNCHANGED <<rvars, estate, fstate>>

\* a finger is put down on the bottom navigation: its events go to that element
\* and no listener of the recognizer runs, but it is in every TouchEvent.touches
TouchOutside ==
  /\ device = "touch"
  /\ OutsideId \notin FingerIds
  /\ fingers' = Append(fingers, [id |-> OutsideId, pos |-> NavPoint])
  /\ Put(GH, ia)
  /\ UNCHANGED <<now, device, staleFired, presses, cancelled, multi>>
  /\ UNCHANGED <<rvars, estate, fstate>>

\* ... and lifted again
LiftOutside ==
  /\ device = "touch"
  /\ OutsideId \in FingerIds
  /\ fingers' = SelectSeqNotIn(fingers, {OutsideId})
  /\ Put(GH, ia)
  /\ UNCHANGED <<now, device, staleFired, presses, cancelled, multi>>
  /\ UNCHANGED <<rvars, estate, fstate>>

TouchEnd ==
  /\ device = "touch"
  /\ \E changed \in Lifted :
    /\ fingers' = SelectSeqNotIn(fingers, ListIds(changed))
    /\ LET h == Stray(HandleTouchEnd(GH, changed, now), ListIds(changed))
       IN /\ Put(h, ia)
          /\ multi' = MultiAfter(h, fingers')
    /\ UNCHANGED <<now, device, staleFired, presses, cancelled>>
    /\ UNCHANGED <<rvars, estate, fstate>>

TouchCancel ==
  /\ device = "touch"
  /\ \E changed \in Lifted :
    /\ fingers' = SelectSeqNotIn(fingers, ListIds(changed))
    /\ Put(HandleTouchCancel(GH), ia)
    /\ multi' = MultiAfter(HandleTouchCancel(GH), fingers')
    /\ cancelled' = TRUE
    /\ UNCHANGED <<now, device, staleFired, presses>>
    /\ UNCHANGED <<rvars, estate, fstate>>

MouseDown ==
  /\ device = "mouse"
  /\ \E p \in Points :
    /\ presses < MaxPresses
    /\ presses' = presses + 1
    /\ LET h == HandleMouseDown(NewInteraction(GH), p, now)
       IN Put(h, h.ia)
    /\ cancelled' = FALSE
    /\ UNCHANGED <<now, device, fingers, staleFired, multi>>
    /\ UNCHANGED <<rvars, estate, fstate>>

MouseMove ==
  /\ device = "mouse"
  /\ \E p \in Points :
    /\ Put(Stray(HandleMouseMove(GH, p), {MouseId}), ia)
    /\ UNCHANGED <<now, device, fingers, staleFired, presses, cancelled, multi>>
    /\ UNCHANGED <<rvars, estate, fstate>>

MouseUp ==
  /\ device = "mouse"
  /\ \E p \in Points :
    /\ Put(Stray(HandleMouseUp(GH, p, now), {MouseId}), ia)
    /\ UNCHANGED <<now, device, fingers, staleFired, presses, cancelled, multi>>
    /\ UNCHANGED <<rvars, estate, fstate>>

(* =========================== EventEmitter ============================== *)
MaxListeners == 3

\* two of the gesture kinds and two callbacks
EmitterKinds == {"tap", "pan"}
Callbacks == {"cb1", "cb2"}

\* an event without an entry in the map has no callbacks: the empty array
NoListeners == [k \in EmitterKinds |-> <<>>]
NoDelivery == [emitted |-> FALSE, event |-> "none", data |-> Undefined, calls |-> <<>>]

\* callbacks.indexOf(callback), 0 for -1
CallbackIndex(callbacks, callback) ==
  IF \E i \in DOMAIN callbacks : callbacks[i] = callback
  THEN CHOOSE i \in DOMAIN callbacks :
         /\ callbacks[i] = callback
         /\ \A j \in 1..(i - 1) : callbacks[j] # callback
  ELSE 0

EmitterOn(ev, event, callback) == [ev EXCEPT ![event] = Append(@, callback)]

EmitterOff(ev, event, callback) ==
  LET index == CallbackIndex(ev[event], callback)
  IN IF index > 0
     THEN [ev EXCEPT ![event] = SubSeq(@, 1, index - 1) \o SubSeq(@, index + 1, Len(@))]
     ELSE ev

\* callbacks.forEach(callback => callback(data)): the invocations, in order
EmitterEmit(ev, event, data) ==
  [i \in DOMAIN ev[event] |-> [callback |-> ev[event][i], data |-> data]]

\* the callbacks of the event for which on() was called and off() was not
\* called since, in the order of their on() calls
Subscribe(sub, event, callback) ==
  IF \E i \in DOMAIN sub[event] : sub[event][i] = callback THEN sub
  ELSE [sub EXCEPT ![event] = Append(@, callback)]
Unsubscribe(sub, event, callback) ==
  [sub EXCEPT ![event] = SelectSeq(@, LAMBDA c : c # callback)]

On ==
  \E event \in EmitterKinds, callback \in Callbacks :
    /\ Len(events[event]) < MaxListeners
    /\ events' = EmitterOn(events, event, callback)
    /\ subscribed' = Subscribe(subscribed, event, callback)
    /\ delivered' = NoDelivery
    /\ UNCHANGED <<now, gstate, rvars, fstate>>

Off ==
  \E event \in EmitterKinds, callback \in Callbacks :
    /\ events' = EmitterOff(events, event, callback)
    /\ subscribed' = Unsubscribe(subscribed, event, callback)
    /\ delivered' = NoDelivery
    /\ UNCHANGED <<now, gstate, rvars, fstate>>

\* emitGesture(type, ...): this.emit(type, gestureEvent)
Emitted ==
  \E type \in EmitterKinds, position \in Points :
    LET gestureEvent == [type |-> type, position |-> position]
    IN /\ delivered' = [emitted |-> TRUE, event |-> type, data |-> gestureEvent,
                        calls |-> EmitterEmit(events, type, gestureEvent)]
       /\ UNCHANGED <<now, gstate, rvars, events, subscribed, fstate>>

(* ========================= RadialInterface ============================ *)

(* ------------------------------ bounds -------------------------------- *)
Unit == 10000
DistUnit == 100
CanvasWidth == 400
CanvasHeight == 400
RTickMs == 100
RMaxTime == 1300
MaxWork == 2

(* ---------------------- RadialInterface constants --------------------- *)
DRAG_THRESHOLD == 15
timeDelta == 16
centralBubbleSize == 150
childBubbleSize == 80
minSpacing == 40
SelectDragDistance == 5
DragEndGrace == 100
RecenterDelay == 300

\* Math.PI
PI == (355 * Unit) \div 113
\* easeRotation: maxRotationSpeed = 0.1
maxRotationSpeed == Unit \div 10
\* applyMomentum: minVelocity = 0.0001
minVelocity == Unit \div 10000
\* handleGestureEnd: Math.abs(velocity) > 0.01
MomentumStart == Unit \div 100

NoBubble == "null"
NoTarget == "canvas"
NoTime == 0

Abs(a) == IF a < 0 THEN -a ELSE a
Sign(a) == IF a > 0 THEN 1 ELSE IF a < 0 THEN -1 ELSE 0
Max(a, b) == IF a >= b THEN a ELSE b
Min(a, b) == IF a <= b THEN a ELSE b
\* a / b on fixed-point numbers, truncated toward zero
Div(a, b) == IF a >= 0 THEN a \div b ELSE -((-a) \div b)

RECURSIVE SqrtBetween(_, _, _)
SqrtBetween(n, lo, hi) ==
  IF lo >= hi THEN lo
  ELSE LET mid == (lo + hi + 1) \div 2
       IN IF mid * mid <= n THEN SqrtBetween(n, mid, hi) ELSE SqrtBetween(n, lo, mid - 1)

\* Math.sqrt(d2) of a squared length in px^2, in DistUnit to the pixel
Sqrt(d2) == SqrtBetween(d2 * DistUnit * DistUnit, 0, 46340)

\* canvas.offsetWidth / 2 and canvas.offsetHeight / 2; the canvas rectangle
\* starts at the origin of the client area (canvasRect.left = canvasRect.top = 0)
Center == Pt(CanvasWidth \div 2, CanvasHeight \div 2)

\* the pointer positions of pan events, as offsets from the canvas centre: to
\* the west, 10 px further out, and to the north-west
Offsets == {Pt(-150, 0), Pt(-160, 0), Pt(-100, -100)}
PanPoints == {Pt(Center.x + o.x, Center.y + o.y) : o \in Offsets}

\* Math.atan2(dy, dx) on the eight compass directions, the directions the
\* pointer positions lie in
Atan2(dy, dx) ==
  CASE dy = 0 /\ dx >= 0 -> 0
    [] dy = 0 /\ dx < 0 -> PI
    [] dx = 0 /\ dy > 0 -> PI \div 2
    [] dx = 0 /\ dy < 0 -> -(PI \div 2)
    [] dx = dy /\ dx > 0 -> PI \div 4
    [] dx = dy /\ dx < 0 -> -((3 * PI) \div 4)
    [] dx = -dy /\ dx > 0 -> -(PI \div 4)
    [] dx = -dy /\ dx < 0 -> (3 * PI) \div 4

\* Math.atan2(radius sin a, radius cos a): the angle a brought into (-PI, PI]
WrapAngle(a) ==
  LET m == a % (2 * PI)
  IN IF m > PI THEN m - 2 * PI ELSE m

\* the default project of main.ts
NodeIds == {"root", "tutorial", "features", "tap", "double-tap", "long-press",
            "radial", "touch", "export"}
Children(n) ==
  CASE n = "root" -> <<"tutorial", "features">>
    [] n = "tutorial" -> <<"tap", "double-tap", "long-press">>
    [] n = "features" -> <<"radial", "touch", "export">>
    [] OTHER -> <<>>
ProjectId == "root"
\* a tree is its root's id and the children array of every node
DefaultProject == [id |-> ProjectId, children |-> [n \in NodeIds |-> Children(n)]]

\* findNode(root, targetId) finds a node
FindNode(root, targetId) == targetId \in DOMAIN root.children

ZeroDragState(lastDragEnd) ==
  [isDragging |-> FALSE, bubbleId |-> NoBubble, startAngle |-> 0, currentAngle |-> 0,
   startPosition |-> Pt(0, 0), lastPosition |-> Pt(0, 0), dragDistance |-> 0,
   velocity |-> 0, momentum |-> 0, lastDragEnd |-> lastDragEnd]

NoRot == [called |-> FALSE, delta |-> 0, before |-> EmptyMap]
\* step is the part of the drag handling the last step ran: "init" and "update"
\* for a drag's first and later pan events, "other" for a pan on another ring
\* element than the dragged one, "end" for a gesture end
NoDrag == [resolved |-> FALSE, previous |-> 0, current |-> 0, raw |-> 0, adjusted |-> 0,
           step |-> "none"]
\* turn is the direction of the last rotation applied by the drag that started
\* the animation
NoLoop == [n |-> 0, velocity |-> 0, applied |-> 0, turn |-> 0]
NoFrame == [ran |-> FALSE, rotated |-> FALSE, n |-> 0, velocity |-> 0, applied |-> 0,
            first |-> NoLoop]
\* op is the navigation the last step ran ("load", "root", "parent", "create",
\* "recenter"), rendered whether it rebuilt the ring, requested the node the
\* most recent navigation request asked to center
NoNav == [op |-> "none", rendered |-> FALSE, requested |-> NoBubble]
NoSelect == [called |-> FALSE, at |-> 0, dragEnd |-> 0, changed |-> FALSE,
             scheduled |-> FALSE, emitted |-> FALSE, threw |-> FALSE,
             target |-> NoTarget, level |-> -1, qualifying |-> FALSE]

\* EventEmitter.emit of RadialInterface
Emit(r, event, id) == [r EXCEPT !.out = Append(@, [event |-> event, id |-> id])]

\* the centre has position {x: 0, y: 0}: no angle and no radius (read as 0, falsy);
\* x and y of a ring element are functions of its angle and radius
CentralBubble == [level |-> 0, angle |-> 0, radius |-> 0, classes |-> {}]

RingRadius == (centralBubbleSize \div 2) + (childBubbleSize \div 2) + minSpacing

ChildBubble(index, count) ==
  LET angleStep == (2 * PI) \div count
  IN [level |-> 1, angle |-> index * angleStep - PI \div 2, radius |-> RingRadius,
      classes |-> {}]

\* findNode(currentProject, viewState.centerNode) || currentProject: the node
\* the ring is built around
CenteredNode(root, centerNodeId) ==
  IF FindNode(root, centerNodeId) THEN centerNodeId ELSE root.id

\* the new ring is added to the collection, whose elements are not cleared
RenderBubbles_KeepsRing(r) ==
  LET root == r.currentProject
      centeredNode == CenteredNode(root, r.centerNode)
      children == root.children[centeredNode]
      ids == {children[i] : i \in DOMAIN children}
      IndexOf(c) == (CHOOSE i \in DOMAIN children : children[i] = c) - 1
  IN [r EXCEPT !.bubbles = [b \in {centeredNode} \cup ids \cup DOMAIN r.bubbles |->
                              IF b = centeredNode THEN CentralBubble
                              ELSE IF b \in ids
                              THEN ChildBubble(IndexOf(b), Len(children))
                              ELSE r.bubbles[b]],
               !.nav.rendered = TRUE]

RenderBubbles(r) ==
  LET root == r.currentProject
      centeredNode == CenteredNode(root, r.centerNode)
      children == root.children[centeredNode]
      ids == {children[i] : i \in DOMAIN children}
      IndexOf(c) == (CHOOSE i \in DOMAIN children : children[i] = c) - 1
  IN [r EXCEPT !.bubbles = [b \in {centeredNode} \cup ids |->
                              IF b = centeredNode THEN CentralBubble
                              ELSE ChildBubble(IndexOf(b), Len(children))],
               !.nav.rendered = TRUE]

\* the rotation moves every ring element by the delta itself
EaseRotation_NoEasing(deltaAngle) == deltaAngle

\* Math.sign(c) * t * t * (3 - 2 * t) * max with t = |c| / max
EaseRotation(deltaAngle) ==
  LET clampedDelta == Max(-maxRotationSpeed, Min(maxRotationSpeed, deltaAngle))
      c == Abs(clampedDelta)
  IN Sign(clampedDelta) *
       ((c * c * (3 * maxRotationSpeed - 2 * c)) \div (maxRotationSpeed * maxRotationSpeed))

\* the rotation moves every bubble, the centre included
UpdateOrbitalPositions_EveryBubble(r, deltaAngle) ==
  LET easedDelta == EaseRotation(deltaAngle)
  IN [r EXCEPT !.bubbles = [b \in DOMAIN r.bubbles |->
                              [r.bubbles[b] EXCEPT !.angle = @ + easedDelta]],
               !.rot = [called |-> TRUE, delta |-> deltaAngle, before |-> r.bubbles]]

\* the add buttons of the ring are moved by the same delta; they are not bubbles
UpdateOrbitalPositions(r, deltaAngle) ==
  LET easedDelta == EaseRotation(deltaAngle)
  IN [r EXCEPT !.bubbles = [b \in DOMAIN r.bubbles |->
                              IF r.bubbles[b].level = 1 /\ r.bubbles[b].radius # 0
                              THEN [r.bubbles[b] EXCEPT !.angle = @ + easedDelta]
                              ELSE r.bubbles[b]],
               !.rot = [called |-> TRUE, delta |-> deltaAngle, before |-> r.bubbles]]

\* the raw difference is used as it is
AdjustDelta_NoWrap(rawDelta) == rawDelta

\* the shorter way around the circle
AdjustDelta(rawDelta) ==
  IF Abs(rawDelta) > PI
  THEN IF rawDelta > 0 THEN rawDelta - 2 * PI ELSE rawDelta + 2 * PI
  ELSE rawDelta

\* a JavaScript number: a finite value v, an infinity (v is its sign) or NaN
Finite(v) == [kind |-> "finite", v |-> v]
Infinite(sign) == [kind |-> "infinite", v |-> sign]
NotANumber == [kind |-> "NaN", v |-> 0]

\* Math.max(0.3, 100 / distanceFromCenter), in thousandths; 100 / 0 is Infinity
\* and Math.max(0.3, Infinity) is Infinity
SpeedMultiplier(distanceFromCenter) ==
  IF distanceFromCenter = 0 THEN Infinite(1)
  ELSE Finite(Max(300, (100 * 1000) \div distanceFromCenter))

\* adjustedDelta * speedMultiplier; 0 * Infinity is NaN
ScaleDelta(adjustedDelta, speedMultiplier) ==
  IF speedMultiplier.kind = "finite"
  THEN Finite(adjustedDelta * (speedMultiplier.v \div 1000)
              + Div(adjustedDelta * (speedMultiplier.v % 1000), 1000))
  ELSE IF adjustedDelta = 0 THEN NotANumber
  ELSE Infinite(Sign(adjustedDelta) * speedMultiplier.v)

\* easeRotation of a JavaScript number: Math.min and Math.max clamp an infinity
\* to the maximum rotation speed and pass NaN on
EaseNumber(x) ==
  CASE x.kind = "finite" -> Finite(EaseRotation(x.v))
    [] x.kind = "infinite" -> Finite(EaseRotation(x.v * maxRotationSpeed))
    [] OTHER -> NotANumber

\* the drag becomes active at the selection guard's distance
DragActive_SelectDistance(dragDistance) == dragDistance > SelectDragDistance * DistUnit

\* every pan of the dragged element counts as an active drag
DragActive_Always(dragDistance) == dragDistance >= 0

DragActive(dragDistance) == dragDistance > DRAG_THRESHOLD * DistUnit

\* the bubble's centre is at its radius from the canvas centre, in the direction
\* of its angle: distanceFromCenter is the radius, atan2 the wrapped angle
\* what a pan event on a ring element is to the drag record: the first event of
\* a session, an event for the dragged element, or one for another element
PanKind(ds, bubbleId) ==
  IF ~ds.isDragging /\ ds.bubbleId = NoBubble THEN "init"
  ELSE IF ds.bubbleId = bubbleId THEN "update"
  ELSE "other"

\* line 386: the event is for the element the drag record names
SameTarget_AnyElement(ds, bubbleId) == ds.bubbleId # NoBubble

SameTarget(ds, bubbleId) == ds.bubbleId = bubbleId

HandleBubbleDrag(r, bubbleId, position) ==
  IF bubbleId \notin DOMAIN r.bubbles THEN r
  ELSE IF r.bubbles[bubbleId].level # 1 THEN r
  ELSE
    LET bubble == r.bubbles[bubbleId]
        distanceFromCenter == bubble.radius
        ds == r.dragState
        after ==
       IF ~ds.isDragging /\ ds.bubbleId = NoBubble
       THEN [r EXCEPT !.dragState = [ds EXCEPT !.bubbleId = bubbleId,
                                               !.startPosition = position,
                                               !.lastPosition = position,
                                               !.dragDistance = 0,
                                               !.velocity = 0,
                                               !.startAngle = WrapAngle(bubble.angle),
                                               !.currentAngle = WrapAngle(bubble.angle)],
                      !.bubbles[bubbleId].classes = @ \cup {"dragging"},
                      !.peak = 0, !.turn = 0]
       ELSE IF SameTarget(ds, bubbleId)
       THEN LET dragDistance == Sqrt(Dist2(position, ds.startPosition))
                r1 == [r EXCEPT !.dragState.dragDistance = dragDistance,
                                !.peak = Max(@, dragDistance)]
                r2 == IF DragActive(dragDistance)
                      THEN LET positionDelta == Sqrt(Dist2(position, ds.lastPosition))
                               velocity == (positionDelta * (Unit \div DistUnit)) \div timeDelta
                               currentAngle == Atan2(position.y - Center.y,
                                                     position.x - Center.x)
                               speedMultiplier == SpeedMultiplier(distanceFromCenter)
                               rawDelta == currentAngle - ds.currentAngle
                               adjustedDelta == AdjustDelta(rawDelta)
                               \* a ring element is at the ring radius from the
                               \* centre, not 0: the scaled delta is finite
                               scaledDelta == ScaleDelta(adjustedDelta, speedMultiplier).v
                               r3 == [r1 EXCEPT !.dragState.isDragging = TRUE,
                                                !.dragState.velocity = velocity,
                                                !.dragState.currentAngle = currentAngle,
                                                !.drag = [resolved |-> TRUE,
                                                          previous |-> ds.currentAngle,
                                                          current |-> currentAngle,
                                                          raw |-> rawDelta,
                                                          adjusted |-> adjustedDelta,
                                                          step |-> "none"]]
                           IN UpdateOrbitalPositions(r3, scaledDelta)
                      ELSE r1
            IN [r2 EXCEPT !.dragState.lastPosition = position]
       ELSE r
    IN [after EXCEPT !.drag.step = PanKind(ds, bubbleId),
                     !.turn = IF after.rot.called
                              THEN Sign(EaseRotation(after.rot.delta)) ELSE @]

\* target is the element's bubble id; a child-bubble element is a level-1 bubble
HandlePan(r, target, position) ==
  IF target # NoTarget /\ target \in DOMAIN r.bubbles /\ r.bubbles[target].level = 1
  THEN HandleBubbleDrag(r, target, position)
  ELSE r

\* the animation starts from the velocity of a record that was already reset
ApplyMomentum_AfterReset(r) ==
  [r EXCEPT !.loops = Append(@, (ZeroDragState(NoTime).velocity * 3) \div 10),
            !.hist = Append(@, [NoLoop EXCEPT !.turn = r.turn])]

\* currentVelocity = velocity * 0.3; the first frame is requested
ApplyMomentum(r) ==
  [r EXCEPT !.loops = Append(@, (r.dragState.velocity * 3) \div 10),
            !.hist = Append(@, [NoLoop EXCEPT !.turn = r.turn])]

\* the change of the ring elements' angles between two renderings of one ring
AppliedDelta(before, after) ==
  LET ring == {b \in DOMAIN before : before[b].level = 1 /\ before[b].radius # 0}
  IN IF ring = {} THEN 0
     ELSE LET b == CHOOSE x \in ring : TRUE IN after[b].angle - before[b].angle

RemoveAt(s, i) == SubSeq(s, 1, i - 1) \o SubSeq(s, i + 1, Len(s))

\* the animation asks for another frame whatever its velocity
MomentumAnimation_NeverStops(r, i) ==
  LET currentVelocity == r.loops[i]
  IN IF Abs(currentVelocity) > minVelocity /\ ~r.dragState.isDragging
     THEN LET r1 == UpdateOrbitalPositions(r, Div(currentVelocity, 2))
          IN [r1 EXCEPT !.loops[i] = Div(currentVelocity * 98, 100),
                        !.hist[i].n = @ + 1,
                        !.frame = [NoFrame EXCEPT !.ran = TRUE, !.rotated = TRUE,
                                                  !.n = r.hist[i].n + 1,
                                                  !.velocity = currentVelocity]]
     ELSE [r EXCEPT !.frame = [NoFrame EXCEPT !.ran = TRUE, !.n = r.hist[i].n,
                                              !.velocity = currentVelocity]]

\* one frame of momentumAnimation i: rotationDelta = currentVelocity * 0.5 and
\* currentVelocity *= 0.98 (friction), or the animation ends
MomentumAnimation(r, i) ==
  LET currentVelocity == r.loops[i]
  IN IF Abs(currentVelocity) > minVelocity /\ ~r.dragState.isDragging
     THEN LET rotationDelta == Div(currentVelocity, 2)
              r1 == UpdateOrbitalPositions(r, rotationDelta)
              applied == AppliedDelta(r.bubbles, r1.bubbles)
              h == r.hist[i]
              first == IF h.n = 0
                       THEN [n |-> 1, velocity |-> currentVelocity, applied |-> applied,
                             turn |-> h.turn]
                       ELSE h
          IN [r1 EXCEPT !.loops[i] = Div(currentVelocity * 98, 100),
                        !.hist[i] = [first EXCEPT !.n = h.n + 1],
                        !.frame = [ran |-> TRUE, rotated |-> TRUE, n |-> h.n + 1,
                                   velocity |-> currentVelocity, applied |-> applied,
                                   first |-> first]]
     ELSE [r EXCEPT !.loops = RemoveAt(@, i),
                    !.hist = RemoveAt(@, i),
                    !.frame = [ran |-> TRUE, rotated |-> FALSE, n |-> r.hist[i].n,
                               velocity |-> currentVelocity, applied |-> 0,
                               first |-> r.hist[i]]]

\* the gesture end resets the record but keeps the dragged element's id
HandleGestureEnd_KeepsTarget(r, t) ==
  LET ds == r.dragState
      r1 == IF ds.isDragging /\ Abs(ds.velocity) > MomentumStart
            THEN ApplyMomentum(r) ELSE r
  IN [r1 EXCEPT !.dragState = [ZeroDragState(IF ds.isDragging THEN t ELSE NoTime)
                                 EXCEPT !.bubbleId = ds.bubbleId],
                !.drag.step = "end",
                !.peak = 0, !.turn = 0,
                !.dragEndedAt = IF ds.isDragging THEN t ELSE @]

HandleGestureEnd(r, t) ==
  LET ds == r.dragState
      r1 == IF ds.isDragging /\ Abs(ds.velocity) > MomentumStart
            THEN ApplyMomentum(r) ELSE r
      r2 == IF ds.bubbleId # NoBubble /\ ds.bubbleId \in DOMAIN r1.bubbles
            THEN [r1 EXCEPT !.bubbles[ds.bubbleId].classes = @ \ {"dragging"}]
            ELSE r1
      wasDragging == ds.isDragging
      lastDragEnd == IF wasDragging THEN t ELSE NoTime
  IN [r2 EXCEPT !.dragState = ZeroDragState(lastDragEnd),
                !.drag.step = "end",
                !.peak = 0, !.turn = 0,
                !.dragEndedAt = IF wasDragging THEN t ELSE @]

AnimateToCenter(r, bubbleId, t) ==
  IF bubbleId \notin DOMAIN r.bubbles THEN r
  ELSE IF ~FindNode(r.currentProject, bubbleId) THEN r
  ELSE [r EXCEPT !.bubbles[bubbleId].classes = @ \cup {"transitioning-to-center"},
                 !.nav.requested = bubbleId,
                 !.recenter = Append(@, [target |-> bubbleId, due |-> t + RecenterDelay])]

\* the timer re-renders and notifies but leaves the centered node as it is
RecenterCallback_KeepsCenter(r, tm) ==
  Emit(RenderBubbles(r), "nodeNavigated", tm.target)

\* the callback of animateToCenter's timer
RecenterCallback(r, tm) ==
  Emit(RenderBubbles([r EXCEPT !.centerNode = tm.target, !.nav.op = "recenter"]),
       "nodeNavigated", tm.target)

\* a tree handed to loadProject that is not the default one
OtherProject ==
  [id |-> "notes",
   children |-> [n \in {"notes", "idea"} |-> IF n = "notes" THEN <<"idea">> ELSE <<>>]]
Projects == {DefaultProject, OtherProject}

LoadProject(r, project) ==
  RenderBubbles([r EXCEPT !.currentProject = project,
                          !.centerNode = project.id,
                          !.nav.op = "load",
                          !.nav.requested = project.id])

GoToRoot(r) ==
  RenderBubbles([r EXCEPT !.centerNode = r.currentProject.id,
                          !.nav.op = "root",
                          !.nav.requested = r.currentProject.id])

\* findParent(root, targetId): the node with the target among its children,
\* NoBubble (null) when there is none
FindParent(root, targetId) ==
  LET parents == {n \in DOMAIN root.children :
                    \E i \in DOMAIN root.children[n] : root.children[n][i] = targetId}
  IN IF parents = {} THEN NoBubble ELSE CHOOSE n \in parents : TRUE

NavigateToParent(r, currentNodeId) ==
  LET parent == FindParent(r.currentProject, currentNodeId)
  IN IF parent = NoBubble THEN r
     ELSE RenderBubbles([r EXCEPT !.centerNode = parent,
                                  !.nav.op = "parent",
                                  !.nav.requested = parent])

\* `child_${Date.now()}`
ChildId(t) == "child_" \o ToString(t)

\* parentId is NoBubble when the caller gives none; the edit the handler
\* schedules for the new element touches the element's text only
CreateChild(r, parentId, t) ==
  LET root == r.currentProject
      targetParentId == IF parentId = NoBubble THEN r.centerNode ELSE parentId
      newChild == ChildId(t)
  IN IF ~FindNode(root, targetParentId) THEN r
     ELSE RenderBubbles(
            [r EXCEPT !.currentProject.children =
                        [n \in DOMAIN root.children \cup {newChild} |->
                           IF n = targetParentId THEN Append(root.children[n], newChild)
                           ELSE IF n = newChild THEN <<>>
                           ELSE root.children[n]],
                      !.nav.op = "create"])

\* the two guards of selectBubble: a drag in progress past the selection
\* distance, or a drag that ended less than the grace time ago
Suppressed(ds, t) ==
  \/ ds.isDragging /\ ds.dragDistance > SelectDragDistance * DistUnit
  \/ ds.lastDragEnd # NoTime /\ t - ds.lastDragEnd < DragEndGrace

\* every selected bubble is navigated to, whatever its level
SelectBubble_AlwaysNavigates(r, bubbleId, t) ==
  LET ds == r.dragState
  IN IF Suppressed(ds, t) THEN r
     ELSE LET r1 == [r EXCEPT !.dragState = ZeroDragState(NoTime), !.peak = 0, !.turn = 0]
          IN IF bubbleId \in DOMAIN r1.bubbles
             THEN AnimateToCenter(r1, bubbleId, t)
             ELSE r1

\* selectBubble without its guard for a drag in progress
SelectBubble_NoDragGuard(r, bubbleId, t) ==
  LET ds == r.dragState
  IN IF ds.lastDragEnd # NoTime /\ t - ds.lastDragEnd < DragEndGrace THEN r
     ELSE LET r1 == [r EXCEPT !.dragState = ZeroDragState(NoTime),
                              !.peak = 0, !.turn = 0,
                              !.bubbles = [b \in DOMAIN r.bubbles |->
                                             [r.bubbles[b] EXCEPT !.classes = @ \ {"selected"}]]]
          IN IF bubbleId \in DOMAIN r1.bubbles
             THEN LET r2 == [r1 EXCEPT !.bubbles[bubbleId].classes = @ \cup {"selected"}]
                  IN IF r2.bubbles[bubbleId].level = 1
                     THEN AnimateToCenter(r2, bubbleId, t)
                     ELSE Emit(r2, "bubbleSelected", bubbleId)
             ELSE r1

SelectBubble(r, bubbleId, t) ==
  LET ds == r.dragState
  IN IF ds.isDragging /\ ds.dragDistance > SelectDragDistance * DistUnit THEN r
     ELSE IF ds.lastDragEnd # NoTime /\ t - ds.lastDragEnd < DragEndGrace THEN r
     ELSE LET r1 == [r EXCEPT !.dragState = ZeroDragState(NoTime),
                              !.peak = 0, !.turn = 0,
                              !.bubbles = [b \in DOMAIN r.bubbles |->
                                             [r.bubbles[b] EXCEPT !.classes = @ \ {"selected"}]]]
          IN IF bubbleId \in DOMAIN r1.bubbles
             THEN LET r2 == [r1 EXCEPT !.bubbles[bubbleId].classes = @ \cup {"selected"}]
                  IN IF r2.bubbles[bubbleId].level = 1
                     THEN AnimateToCenter(r2, bubbleId, t)
                     ELSE Emit(r2, "bubbleSelected", bubbleId)
             ELSE r1

\* event.target.closest('.bubble') is null on the canvas background and the
\* console.log that reads bubble.dataset throws a TypeError: the handler ends
\* there, with nothing done
RadialHandleTap(r, target, t) ==
  IF target = NoTarget THEN [r EXCEPT !.error = TRUE] ELSE SelectBubble(r, target, t)

(* ---- the speed scaling on its own ---- *)
\* distances of the dragged element's centre from the canvas centre, in px, and
\* angle deltas after the wrap-around adjustment
Distances == {0, 1, 50, 100, 155, 333, 334, 400}
AdjustedDeltas == {k * (PI \div 8) : k \in -8..8}

NoScaling == [applied |-> FALSE, distance |-> 0, adjusted |-> 0,
              multiplier |-> Finite(0), scaled |-> Finite(0), eased |-> Finite(0)]

\* lines 409-430 of handleBubbleDrag and the easing of updateOrbitalPositions
ScaleDrag ==
  \E distanceFromCenter \in Distances, adjustedDelta \in AdjustedDeltas :
    LET speedMultiplier == SpeedMultiplier(distanceFromCenter)
        scaledDelta == ScaleDelta(adjustedDelta, speedMultiplier)
    IN /\ scaling' = [applied |-> TRUE, distance |-> distanceFromCenter,
                      adjusted |-> adjustedDelta, multiplier |-> speedMultiplier,
                      scaled |-> scaledDelta, eased |-> EaseNumber(scaledDelta)]
       /\ UNCHANGED <<now, gstate, rvars, estate>>

(* ------------------------- state and steps ---------------------------- *)
RI == [centerNode |-> centerNode, bubbles |-> bubbles, dragState |-> dragState,
       recenter |-> recenter, loops |-> loops, hist |-> loopHist, frame |-> NoFrame,
       peak |-> peakDistance, turn |-> dragTurn,
       dragEndedAt |-> dragEndedAt, rot |-> NoRot, drag |-> NoDrag, out |-> <<>>,
       currentProject |-> currentProject, error |-> FALSE,
       nav |-> [NoNav EXCEPT !.requested = lastNav.requested]]

\* the handler's result becomes the state
RCommit(r) ==
  /\ centerNode' = r.centerNode
  /\ bubbles' = r.bubbles
  /\ dragState' = r.dragState
  /\ recenter' = r.recenter
  /\ loops' = r.loops
  /\ loopHist' = r.hist
  /\ lastFrame' = r.frame
  /\ peakDistance' = r.peak
  /\ dragTurn' = r.turn
  /\ dragEndedAt' = r.dragEndedAt
  /\ lastRot' = r.rot
  /\ lastDrag' = r.drag
  /\ lastOut' = r.out
  /\ currentProject' = r.currentProject
  /\ lastNav' = r.nav

\* ... within the budget of rotation updates, re-center requests, new nodes
\* and loaded trees
RPut(r) ==
  /\ RCommit(r)
  /\ work' = work + (IF r.rot.called THEN 1 ELSE 0)
                + (IF Len(r.recenter) > Len(recenter) THEN 1 ELSE 0)
                + (IF r.nav.op \in {"create", "load"} THEN 1 ELSE 0)
  /\ work' <= MaxWork

\* the elements of the canvas a gesture can start on
Targets == DOMAIN bubbles \cup {NoTarget}

RadialTick ==
  /\ now + RTickMs <= RMaxTime
  /\ \A i \in DOMAIN recenter : recenter[i].due > now
  /\ now' = now + RTickMs
  /\ RPut(RI)
  /\ lastSelect' = NoSelect
  /\ UNCHANGED <<gstate, estate, fstate>>

Pan ==
  \E target \in Targets, position \in PanPoints :
    /\ RPut(HandlePan(RI, target, position))
    /\ lastSelect' = NoSelect
    /\ UNCHANGED <<now, gstate, estate, fstate>>

Tap ==
  \E target \in Targets :
    LET r == RadialHandleTap(RI, target, now)
    IN /\ RPut(r)
       /\ lastSelect' = [called |-> target # NoTarget, at |-> now, dragEnd |-> dragEndedAt,
                         changed |-> r.bubbles # bubbles,
                         scheduled |-> Len(r.recenter) > Len(recenter),
                         emitted |-> \E i \in DOMAIN r.out : r.out[i].event = "bubbleSelected",
                         threw |-> r.error,
                         target |-> target,
                         level |-> IF target \in DOMAIN bubbles
                                   THEN bubbles[target].level ELSE -1,
                         qualifying |-> ~Suppressed(dragState, now)]
       /\ UNCHANGED <<now, gstate, estate, fstate>>

GestureEnd ==
  /\ RPut(HandleGestureEnd(RI, now))
  /\ lastSelect' = NoSelect
  /\ UNCHANGED <<now, gstate, estate, fstate>>

AnimationFrame ==
  \E i \in DOMAIN loops :
    /\ RPut(MomentumAnimation(RI, i))
    /\ lastSelect' = NoSelect
    /\ UNCHANGED <<now, gstate, estate, fstate>>

\* the home button of the bottom navigation
Home ==
  /\ RPut(GoToRoot(RI))
  /\ lastSelect' = NoSelect
  /\ UNCHANGED <<now, gstate, estate, fstate>>

\* the node the ring was last built around: the breadcrumb's currentNodeId
Centered == CHOOSE b \in DOMAIN bubbles : bubbles[b].level = 0

\* a click on the parent breadcrumb, which is rendered when the ring is built
\* around another node than the root
ParentClick ==
  /\ Centered # currentProject.id
  /\ RPut(NavigateToParent(RI, Centered))
  /\ lastSelect' = NoSelect
  /\ UNCHANGED <<now, gstate, estate, fstate>>

\* the add-child button or a "+" button of the ring, clicked at least a
\* millisecond after the last click that made a node
AddChild ==
  /\ ~FindNode(currentProject, ChildId(now))
  /\ RPut(CreateChild(RI, NoBubble, now))
  /\ lastSelect' = NoSelect
  /\ UNCHANGED <<now, gstate, estate, fstate>>

Load ==
  \E project \in Projects :
    /\ RPut(LoadProject(RI, project))
    /\ lastSelect' = NoSelect
    /\ UNCHANGED <<now, gstate, estate, fstate>>

\* timers of the same delay run in the order they were set
RecenterTimer ==
  \E i \in {1} \cap DOMAIN recenter :
    /\ recenter[i].due <= now
    /\ RPut(RecenterCallback(
              [RI EXCEPT !.recenter = SubSeq(@, 1, i - 1) \o SubSeq(@, i + 1, Len(@))],
              recenter[i]))
    /\ lastSelect' = NoSelect
    /\ UNCHANGED <<now, gstate, estate, fstate>>

\* the recognizer after construction
GestureInit ==
  /\ touches = EmptyMap
  /\ tapTimeout = NoTimer
  /\ longPressTimeout = NoTimer
  /\ lastTapTime = 0
  /\ lastTapPosition = Pt(0, 0)
  /\ timers = {}
  /\ fingers = <<>>
  /\ emitted = [k \in TerminalKinds |-> 0]
  /\ lastEmits = <<>>
  /\ nTaps = 0
  /\ prevTap = [time |-> 0, pos |-> Pt(0, 0), paired |-> FALSE, afterDouble |-> FALSE]
  /\ pairRel = "none"
  /\ waiting = {}
  /\ ia = 0
  /\ terminals = [i \in 1..MaxCancelPresses |-> 0]
  /\ panned = {}
  /\ staleFired = FALSE
  /\ strayEffect = FALSE
  /\ events = NoListeners
  /\ scaling = NoScaling
  /\ subscribed = NoListeners
  /\ delivered = NoDelivery
  /\ cancelled = FALSE
  /\ multi = FALSE
  /\ presses = 0

\* the interface after construction and loadProject(defaultProject)
RadialInit ==
  /\ centerNode = ProjectId
  /\ currentProject = DefaultProject
  /\ bubbles = RenderBubbles([centerNode |-> ProjectId, bubbles |-> EmptyMap,
                              currentProject |-> DefaultProject, nav |-> NoNav]).bubbles
  /\ dragState = ZeroDragState(NoTime)
  /\ recenter = <<>>
  /\ loops = <<>>
  /\ loopHist = <<>>
  /\ lastFrame = NoFrame
  /\ work = 0
  /\ lastRot = NoRot
  /\ lastDrag = NoDrag
  /\ lastSelect = NoSelect
  /\ peakDistance = 0
  /\ dragTurn = 0
  /\ dragEndedAt = NoTime
  /\ lastOut = <<>>
  /\ lastNav = NoNav

Init ==
  /\ now = StartTime
  /\ device \in {"mouse", "touch"}
  /\ GestureInit
  /\ RadialInit

Next ==
  \/ Tick
  \/ FireTimer
  \/ TouchStart
  \/ TouchMove
  \/ TouchEnd
  \/ TouchCancel
  \/ MouseDown
  \/ MouseMove
  \/ MouseUp

Spec == Init /\ [][Next]_vars

InitRadial ==
  /\ now = StartTime
  /\ device = "touch"
  /\ GestureInit
  /\ RadialInit

NextRadial ==
  \/ RadialTick
  \/ Pan
  \/ Tap
  \/ GestureEnd
  \/ AnimationFrame
  \/ RecenterTimer

(* ---- the touch recognizer with events for contacts that are not there ---- *)
\* a touchmove or touchend whose changed touch is no finger on the surface and
\* no contact of the recognizer (a contact already released, or never pressed)
StrayTouches == OneTouch(TouchIds \ (FingerIds \cup DOMAIN touches))

StrayTouchMove ==
  /\ device = "touch"
  /\ \E changed \in StrayTouches :
    /\ Put(Stray(HandleTouchMove(GH, changed, fingers), ListIds(changed)), ia)
    /\ UNCHANGED <<now, device, fingers, staleFired, presses, cancelled, multi>>
    /\ UNCHANGED <<rvars, estate, fstate>>

StrayTouchEnd ==
  /\ device = "touch"
  /\ \E changed \in StrayTouches :
    /\ Put(Stray(HandleTouchEnd(GH, changed, now), ListIds(changed)), ia)
    /\ UNCHANGED <<now, device, fingers, staleFired, presses, cancelled, multi>>
    /\ UNCHANGED <<rvars, estate, fstate>>

InitStray ==
  /\ now = StartTime
  /\ device = "touch"
  /\ GestureInit
  /\ RadialInit

NextStray ==
  \/ Tick
  \/ FireTimer
  \/ TouchStart
  \/ TouchMove
  \/ TouchEnd
  \/ TouchCancel
  \/ StrayTouchMove
  \/ StrayTouchEnd

SpecStray == InitStray /\ [][NextStray]_vars

(* ---- presses, releases and cancels of fingers that do not move ---- *)
TouchPress == TouchStartWithin(MaxCancelPresses)

NextCancel ==
  \/ Tick
  \/ FireTimer
  \/ TouchPress
  \/ TouchEnd
  \/ TouchCancel

SpecCancel == InitStray /\ [][NextCancel]_vars

(* ---- touch on a page with the bottom navigation next to the element ---- *)
NextPage ==
  \/ Tick
  \/ FireTimer
  \/ TouchStart
  \/ TouchMove
  \/ TouchEnd
  \/ TouchCancel
  \/ TouchOutside
  \/ LiftOutside

SpecPage == InitStray /\ [][NextPage]_vars

(* ---- the speed scaling of a drag update, for every distance from the centre ---- *)
SpecMultiplier == InitStray /\ [][ScaleDrag]_vars

(* ---- the publish/subscribe interface of the recognizer ---- *)
NextEmitter ==
  \/ On
  \/ Off
  \/ Emitted

SpecEmitter == InitStray /\ [][NextEmitter]_vars

SpecRadial == InitRadial /\ [][NextRadial]_vars

(* ---- taps and the transitions they start, on a ring that is not dragged ---- *)
NextNavigate ==
  \/ RadialTick
  \/ Tap
  \/ RecenterTimer

\* time passes and a timer that is due runs: the browser's event loop
SpecNavigate ==
  InitRadial /\ [][NextNavigate]_vars /\ WF_vars(RadialTick) /\ WF_vars(RecenterTimer)

(* ---- navigation: taps, the buttons, new nodes and another tree ---- *)
NextProject ==
  \/ RadialTick
  \/ Tap
  \/ RecenterTimer
  \/ Home
  \/ ParentClick
  \/ AddChild
  \/ Load

SpecProject == InitRadial /\ [][NextProject]_vars

(* ---- a drag on a ring at rest, its release and the momentum that follows ---- *)
RestPan ==
  /\ loops = <<>>
  /\ Pan

\* the frame the browser was asked for; requestAnimationFrame calls every
\* callback it was given, so a pending frame is eventually run
MomentumFrame ==
  \E i \in DOMAIN loops :
    /\ RCommit(MomentumAnimation(RI, i))
    /\ lastSelect' = NoSelect
    /\ UNCHANGED <<now, work, gstate, estate, fstate>>

NextMomentum ==
  \/ RestPan
  \/ GestureEnd
  \/ MomentumFrame

SpecMomentum == InitRadial /\ [][NextMomentum]_vars /\ WF_vars(MomentumFrame)

(* ===================== GestureHandler: properties ===================== *)

\* C1: every release within the movement and time thresholds gets exactly one of
\* `tap` or `doubleTap`: a tap candidate that has produced neither, and that a
\* later release can no longer pair with (a later candidate exists, or its
\* double-tap window has elapsed), has its single-tap timer pending, so that its
\* `tap` is emitted.
C1_TapOrDoubleTap ==
  \A c \in waiting :
    (c < nTaps \/ now >= prevTap.time + DOUBLE_TAP_DELAY)
    => \E tm \in timers : tm.kind = "tap" /\ tm.cand = c

\* C2: two taps at the same position, released more than 300 ms apart: once the
\* double-tap window of the second has elapsed and no single-tap timer is left,
\* exactly two `tap` and no `doubleTap` have been emitted.
C2_TwoLateTaps ==
  (/\ nTaps = 2
   /\ pairRel = "late"
   /\ now >= prevTap.time + DOUBLE_TAP_DELAY
   /\ \A tm \in timers : tm.kind # "tap")
  => (emitted["tap"] = 2 /\ emitted["doubleTap"] = 0)

\* C3: two taps released less than 300 ms and less than 10 px apart: from the
\* second release on exactly one `doubleTap` and no `tap` has been emitted, and
\* no single-tap timer is pending that could still emit one.
C3_DoubleTap ==
  (nTaps = 2 /\ pairRel = "close")
  => (/\ emitted["doubleTap"] = 1
      /\ emitted["tap"] = 0
      /\ \A tm \in timers : tm.kind # "tap")

C3_Witness ==
  /\ nTaps = 2
  /\ pairRel = "close"
  /\ emitted["doubleTap"] = 1
  /\ lastEmits # <<>>
  /\ lastEmits[1].type = "doubleTap"

\* C4: an interaction in which the contact moved more than 10 px from its start
\* (a `pan` was emitted) produces no `tap`, `doubleTap` or `longPress`.
C4_PanNoTerminal == \A i \in panned : terminals[i] = 0

\* C5: each interaction causes at most one terminal gesture, and no timer that
\* was left pending by a cancellation (clearTimers) emits a gesture afterwards.
C5_OneTerminalNoStale ==
  /\ \A i \in 1..MaxPresses : terminals[i] <= 1
  /\ ~staleFired

(* ===================== RadialInterface: properties ==================== *)

\* C6: a selection request that arrives less than 100 ms after the last gesture
\* end that ended a drag is suppressed: it changes no bubble's selection,
\* schedules no re-center and emits no bubbleSelected.
C6_GraceSuppresses ==
  (/\ lastSelect.called
   /\ lastSelect.dragEnd # NoTime
   /\ lastSelect.at - lastSelect.dragEnd < DragEndGrace)
  => (~lastSelect.changed /\ ~lastSelect.scheduled /\ ~lastSelect.emitted)

\* C7: while isDragging is set, dragDistance exceeds the 15 px drag-activation
\* threshold and bubbleId is not null.
C7_DraggingBeyondThreshold ==
  dragState.isDragging =>
    (dragState.dragDistance > DRAG_THRESHOLD * DistUnit /\ dragState.bubbleId # NoBubble)

\* C7, amended: while isDragging is set, bubbleId is not null and dragDistance
\* has exceeded the 15 px threshold at some pan event since the drag record was
\* last reset; the stored dragDistance itself may have fallen back since.
C7_DraggingHasExceeded ==
  dragState.isDragging =>
    (peakDistance > DRAG_THRESHOLD * DistUnit /\ dragState.bubbleId # NoBubble)

C7_Witness ==
  /\ dragState.isDragging
  /\ dragState.dragDistance <= DRAG_THRESHOLD * DistUnit
  /\ peakDistance > DRAG_THRESHOLD * DistUnit

\* C8: a call of updateOrbitalPositions adds the same eased delta to the angle of
\* every level-1 bubble and nothing to the centre, keeps every radius, and so
\* keeps the angular difference of any two ring elements.
C8_UniformRotation ==
  lastRot.called =>
    LET before == lastRot.before
        easedDelta == EaseRotation(lastRot.delta)
    IN /\ DOMAIN bubbles = DOMAIN before
       /\ \A b \in DOMAIN bubbles :
            /\ bubbles[b].level = before[b].level
            /\ bubbles[b].radius = before[b].radius
            /\ before[b].level = 1 => bubbles[b].angle = before[b].angle + easedDelta
            /\ before[b].level = 0 => bubbles[b].angle = before[b].angle
       /\ \A a, b \in DOMAIN bubbles :
            (before[a].level = 1 /\ before[b].level = 1)
            => bubbles[a].angle - bubbles[b].angle = before[a].angle - before[b].angle

\* a momentum frame has just rotated a ring of two
C8_Witness ==
  /\ lastRot.called
  /\ ~lastDrag.resolved
  /\ EaseRotation(lastRot.delta) # 0
  /\ Cardinality({b \in DOMAIN bubbles : bubbles[b].level = 1}) >= 2
  /\ \E b \in DOMAIN bubbles : bubbles[b].angle # lastRot.before[b].angle

\* C9: the delta the drag update resolves has magnitude at most PI; a raw delta
\* above PI is replaced by raw - 2 PI, which is negative, and a raw delta below
\* -PI by raw + 2 PI, which is positive.
C9_ShortArc ==
  lastDrag.resolved =>
    /\ lastDrag.raw = lastDrag.current - lastDrag.previous
    /\ Abs(lastDrag.adjusted) <= PI
    /\ lastDrag.raw > PI => (lastDrag.adjusted = lastDrag.raw - 2 * PI /\ lastDrag.adjusted < 0)
    /\ lastDrag.raw < -PI => (lastDrag.adjusted = lastDrag.raw + 2 * PI /\ lastDrag.adjusted > 0)
    /\ Abs(lastDrag.raw) <= PI => lastDrag.adjusted = lastDrag.raw

\* a pan has just resolved a raw delta above PI
C9_Witness ==
  /\ lastDrag.resolved
  /\ lastDrag.raw > PI
  /\ lastDrag.adjusted < 0

\* the deltas of -4 rad to 4 rad in steps of 0.05 rad
EaseSamples == {k * (Unit \div 20) : k \in -80..80}

\* C10: no call of updateOrbitalPositions, from a pan or from a momentum frame,
\* changes the angle of a ring element by more than maxRotationSpeed (0.1 rad),
\* and easeRotation returns no more than that for any delta.
C10_RotationClamped ==
  /\ lastRot.called =>
       \A b \in DOMAIN bubbles :
         Abs(bubbles[b].angle - lastRot.before[b].angle) <= maxRotationSpeed
  /\ \A d \in EaseSamples : Abs(EaseRotation(d)) <= maxRotationSpeed

\* a call with a delta beyond the clamp has just rotated the ring by the clamp
C10_Witness ==
  /\ lastRot.called
  /\ Abs(lastRot.delta) > maxRotationSpeed
  /\ \E b \in DOMAIN bubbles :
       Abs(bubbles[b].angle - lastRot.before[b].angle) = maxRotationSpeed

(* ================== RadialInterface: momentum properties ============== *)

\* C11: every momentum loop terminates: a pending animation eventually is not
\* pending any more; a frame rotates the ring exactly when its velocity is above
\* the minimum velocity, and the frame that finds it at or below the minimum
\* rotates nothing and asks for no further frame; while no animation is pending
\* no frame runs.
C11_MomentumTerminates ==
  /\ (loops # <<>>) ~> (loops = <<>>)
  /\ [](lastFrame.ran =>
          /\ lastFrame.rotated <=> Abs(lastFrame.velocity) > minVelocity
          /\ lastRot.called <=> lastFrame.rotated)
  /\ [][/\ loops = <<>> => ~lastFrame'.ran
        /\ lastFrame'.ran /\ ~lastFrame'.rotated => Len(loops') = Len(loops) - 1]_vars

\* an animation has stopped after more than a hundred rotating frames
C11_Witness ==
  /\ lastFrame.ran
  /\ ~lastFrame.rotated
  /\ lastFrame.n > 100
  /\ loops = <<>>

\* C12: the rotation applied to the ring elements' angles by a frame of a momentum
\* loop is proportional to the frame's velocity V*f^n, with the constant of the
\* loop's first frame (up to one unit of rounding on each side).
C12_AppliedProportional ==
  lastFrame.rotated =>
    Abs(lastFrame.applied * lastFrame.first.velocity
        - lastFrame.first.applied * lastFrame.velocity)
      <= lastFrame.first.velocity + lastFrame.velocity

\* C13: once a new drag on a ring element has had its first pan event (the drag
\* record names the element), no momentum frame rotates the ring.
C13_DragStopsMomentum ==
  lastFrame.rotated => dragState.bubbleId = NoBubble

(* ================= GestureHandler: contacts and timers ================ *)

\* C14: a move or release event that names only contacts the recognizer does not
\* know emits no gesture and leaves the contacts, the pending timers and their
\* handles, and the last-tap baseline as they were.
C14_StrayIsNoOp == ~strayEffect

\* C15: after a touchcancel nothing is emitted until the next press.
C15_CancelSilences == cancelled => lastEmits = <<>>

\* C16: from the press of a second contact while another is down until every
\* finger is lifted, no `tap`, `longPress` or `pan` is emitted.
C16_TwoContactsNoSingle ==
  multi => Kinds(lastEmits) \cap {"tap", "longPress", "pan"} = {}

\* C17: at most one long-press timer and at most one single-tap timer are pending,
\* and every pending timer is the one its handle field references.
C17_TimersReferenced ==
  /\ Cardinality({tm \in timers : tm.kind = "longPress"}) <= 1
  /\ Cardinality({tm \in timers : tm.kind = "tap"}) <= 1
  /\ \A tm \in timers :
       tm.id = (IF tm.kind = "tap" THEN tapTimeout ELSE longPressTimeout)

(* ======================= EventEmitter: properties ===================== *)

\* C18: an emitted gesture of kind K invokes, with the gesture event, exactly the
\* callbacks registered for K with on() and not removed with off() since, each
\* once, in the order of their registration; no other callback is invoked.
C18_PublishSubscribe ==
  delivered.emitted =>
    delivered.calls = [i \in DOMAIN subscribed[delivered.event] |->
                         [callback |-> subscribed[delivered.event][i],
                          data |-> delivered.data]]

(* ===================== RadialInterface: selection ===================== *)

\* the ring elements of the rendering
Ring(bs) == {b \in DOMAIN bs : bs[b].level = 1}
ChildSet(n) == {Children(n)[i] : i \in DOMAIN Children(n)}

\* the last step was a tap, not suppressed, on ring element x, early enough for
\* the clock to reach the end of its transition within the time the model covers
TappedRing(x) ==
  /\ lastSelect.called
  /\ lastSelect.qualifying
  /\ lastSelect.target = x
  /\ lastSelect.level = 1
  /\ lastSelect.at + ((RecenterDelay + RTickMs - 1) \div RTickMs) * RTickMs <= RMaxTime

\* the last step re-centered the tree on x
Recentered(x) ==
  /\ centerNode = x
  /\ Ring(bubbles) = ChildSet(x)
  /\ lastOut = <<[event |-> "nodeNavigated", id |-> x]>>

\* C19: a tap on a ring element that is not suppressed starts the transition (a
\* timer for the element, due after the transition delay), and eventually the
\* tree is re-centered on the element: it is the centered node and the ring is
\* exactly its children.
C19_TapRecenters ==
  \A x \in NodeIds :
    /\ [](TappedRing(x) =>
            \E i \in DOMAIN recenter :
              recenter[i] = [target |-> x, due |-> now + RecenterDelay])
    /\ TappedRing(x) ~> Recentered(x)

\* the tree has been re-centered on the ring element `tutorial`
C19_Witness ==
  /\ Recentered("tutorial")
  /\ now >= StartTime + RecenterDelay

\* where the bubbles of a rendering are: level, angle and radius of each
Layout(bs) ==
  [b \in DOMAIN bs |-> [level |-> bs[b].level, angle |-> bs[b].angle,
                        radius |-> bs[b].radius]]

\* C20: a tap on the center element (level 0) that is not suppressed emits
\* exactly one bubbleSelected for that element and nothing else, starts no
\* transition, and leaves the centered node and the set and the angles of the
\* ring elements as they were.
C20_CenterTapSelects ==
  [][(lastSelect'.called /\ lastSelect'.qualifying /\ lastSelect'.level = 0)
       => /\ lastOut' = <<[event |-> "bubbleSelected", id |-> lastSelect'.target]>>
          /\ recenter' = recenter
          /\ centerNode' = centerNode
          /\ Layout(bubbles') = Layout(bubbles)]_vars

\* the center element of a re-centered tree has been tapped and selected
C20_Witness ==
  /\ lastSelect.called
  /\ lastSelect.qualifying
  /\ lastSelect.level = 0
  /\ lastSelect.target = centerNode
  /\ centerNode # ProjectId
  /\ lastOut = <<[event |-> "bubbleSelected", id |-> centerNode]>>

(* =================== RadialInterface: drag updates ==================== *)

\* C21: for every distance of the dragged element from the centre, zero
\* included, the speed multiplier is a finite number, and so are the scaled
\* delta and the delta added to the angles.
C21_MultiplierFinite ==
  scaling.applied =>
    /\ scaling.multiplier.kind = "finite"
    /\ scaling.scaled.kind = "finite"
    /\ scaling.eased.kind = "finite"

\* C22: a pan event for the dragged element whose distance from the drag's
\* start position is at most the 15 px activation threshold rotates nothing:
\* level, angle and radius (hence position) of every element stay as they were.
C22_SmallPanRotatesNothing ==
  [][(lastDrag'.step = "update" /\ dragState'.dragDistance <= DRAG_THRESHOLD * DistUnit)
       => /\ Layout(bubbles') = Layout(bubbles)
          /\ ~lastRot'.called]_vars

\* a drag that had become active has received a pan event within the
\* threshold distance of its start, after the ring was rotated
C22_Witness ==
  /\ lastDrag.step = "update"
  /\ dragState.isDragging
  /\ dragState.dragDistance > 0
  /\ dragState.dragDistance <= DRAG_THRESHOLD * DistUnit
  /\ work > 0

\* C23: right after a gesture end, and right after a selection that was not
\* suppressed, the drag record has its zero value: not dragging, no element,
\* start and current angle 0, drag distance 0 and velocity 0.
C23_RecordReset ==
  (lastDrag.step = "end" \/ (lastSelect.called /\ lastSelect.qualifying))
    => /\ ~dragState.isDragging
       /\ dragState.bubbleId = NoBubble
       /\ dragState.startAngle = 0
       /\ dragState.currentAngle = 0
       /\ dragState.dragDistance = 0
       /\ dragState.velocity = 0

\* a gesture end has just ended an active drag fast enough to start momentum
C23_Witness ==
  /\ lastDrag.step = "end"
  /\ dragEndedAt = now
  /\ dragState.lastDragEnd = now
  /\ loops # <<>>
  /\ dragState.bubbleId = NoBubble

\* a selection has just been committed in the middle of a drag session: the
\* dragged element still shows as dragged
C23_WitnessSelect ==
  /\ lastSelect.called
  /\ lastSelect.qualifying
  /\ \E b \in DOMAIN bubbles : "dragging" \in bubbles[b].classes
  /\ dragState.bubbleId = NoBubble

\* C24: a tap on an element while the drag record says dragging with a drag
\* distance above the 5 px selection guard selects nothing: the elements (their
\* selected mark included), the centered node, the drag record and the pending
\* transitions stay as they were and nothing is emitted.
C24_TapDuringDragSuppressed ==
  [][(lastSelect'.called /\ dragState.isDragging
        /\ dragState.dragDistance > SelectDragDistance * DistUnit)
       => /\ bubbles' = bubbles
          /\ centerNode' = centerNode
          /\ dragState' = dragState
          /\ recenter' = recenter
          /\ lastOut' = <<>>]_vars

\* an element has been tapped during an active drag that is back within the
\* activation distance of its start but beyond the selection guard's distance
C24_Witness ==
  /\ lastSelect.called
  /\ ~lastSelect.qualifying
  /\ dragState.isDragging
  /\ dragState.dragDistance > SelectDragDistance * DistUnit
  /\ dragState.dragDistance <= DRAG_THRESHOLD * DistUnit
  /\ lastOut = <<>>

\* C25: while the drag record names a ring element, a pan event on another
\* ring element changes neither the drag record nor any element (its angle,
\* its marks), and starts no rotation.
C25_OneDragSession ==
  [][(lastDrag'.step = "other" /\ dragState.bubbleId # NoBubble)
       => /\ dragState' = dragState
          /\ bubbles' = bubbles
          /\ ~lastRot'.called]_vars

\* an active drag of one ring element has received a pan event on another one
C25_Witness ==
  /\ lastDrag.step = "other"
  /\ dragState.isDragging
  /\ dragState.bubbleId # NoBubble
  /\ work > 0

\* C30: a gesture end starts a momentum animation exactly when the drag record
\* says dragging with a velocity above 0.01; the animation starts from 0.3
\* times the velocity the record had before the reset; the gesture end itself
\* moves no element, and without an active drag it starts nothing.
C30_MomentumStart ==
  [][lastDrag'.step = "end"
       => LET starts == dragState.isDragging /\ Abs(dragState.velocity) > MomentumStart
          IN /\ Layout(bubbles') = Layout(bubbles)
             /\ ~lastRot'.called
             /\ starts => loops' = Append(loops, (dragState.velocity * 3) \div 10)
             /\ ~starts => loops' = loops]_vars

\* a gesture end has just started the only momentum animation, which has not
\* run a frame yet
C30_Witness ==
  /\ lastDrag.step = "end"
  /\ dragEndedAt = now
  /\ Len(loops) = 1
  /\ loops[1] > (MomentumStart * 3) \div 10
  /\ loopHist[1].n = 0

\* a gesture end has just ended an active drag that was not moving: no
\* momentum animation
C30_WitnessAtRest ==
  /\ lastDrag.step = "end"
  /\ dragEndedAt = now
  /\ dragState.lastDragEnd = now
  /\ loops = <<>>

(* ======================= GestureHandler: contacts ====================== *)

\* C26: when longPress is emitted, the contact its timer was armed for is still
\* held, has been held since that press for the 500 ms delay, is the only
\* contact of the recognizer, and is within 10 px of where it was pressed.
C26_LongPressOnlyHeld ==
  [][\A tm \in timers :
       (/\ tm.kind = "longPress"
        /\ tm \notin timers'
        /\ \E i \in DOMAIN lastEmits' : lastEmits'[i].type = "longPress")
       => /\ DOMAIN touches = {tm.contact}
          /\ touches[tm.contact].startTime + LONG_PRESS_DELAY = tm.due
          /\ now >= tm.due
          /\ \E i \in DOMAIN fingers :
                /\ fingers[i].id = tm.contact
                /\ ~SqrtMore(Dist2(fingers[i].pos, touches[tm.contact].start),
                             TAP_THRESHOLD)]_vars

\* the step is a touchmove of finger i, which stays on the surface
MovedFinger(i) ==
  /\ Len(fingers') = Len(fingers)
  /\ fingers'[i].id = fingers[i].id
  /\ fingers'[i].pos # fingers[i].pos

\* C27: when the recognizer has exactly one contact and that contact moves, a
\* new position more than 10 px from the contact's start emits exactly one pan
\* with that position and the delta from the start, and leaves no timer
\* pending; a new position within 10 px emits nothing and leaves the timers
\* and their handles as they were.
C27_SingleContactMove ==
  [][\A i \in DOMAIN fingers :
       (DOMAIN touches = {fingers[i].id} /\ MovedFinger(i))
       => LET position == fingers'[i].pos
              start == touches[fingers[i].id].start
          IN IF SqrtMore(Dist2(position, start), TAP_THRESHOLD)
             THEN /\ lastEmits' = <<[type |-> "pan", position |-> position,
                                     deltaX |-> position.x - start.x,
                                     deltaY |-> position.y - start.y,
                                     scale |-> Undefined]>>
                  /\ timers' = {}
                  /\ tapTimeout' = NoTimer
                  /\ longPressTimeout' = NoTimer
             ELSE /\ lastEmits' = <<>>
                  /\ TimerIds(timers') = TimerIds(timers)
                  /\ tapTimeout' = tapTimeout
                  /\ longPressTimeout' = longPressTimeout]_vars

\* where the finger of contact c is after the step
PositionAfter(c) == fingers'[PosIn(fingers', c)].pos

\* C28: a touchmove emits pinch exactly when the recognizer has two contacts
\* whose distance differs from the distance of their start positions by more
\* than 20 px; the one pinch it emits then has the contacts' midpoint as
\* position and the ratio of the two distances as scale.
C28_PinchIff ==
  [][\A i \in DOMAIN fingers :
       MovedFinger(i)
       => IF \E a, b \in DOMAIN touches :
               /\ a # b
               /\ DOMAIN touches = {a, b}
               /\ AbsSqrtDiffMore(Dist2(PositionAfter(a), PositionAfter(b)),
                                  Dist2(touches[a].start, touches[b].start),
                                  PINCH_THRESHOLD)
          THEN \E a, b \in DOMAIN touches :
                 /\ a # b
                 /\ lastEmits' =
                      <<[type |-> "pinch",
                         position |-> Pt((PositionAfter(a).x + PositionAfter(b).x) \div 2,
                                         (PositionAfter(a).y + PositionAfter(b).y) \div 2),
                         deltaX |-> 0, deltaY |-> 0,
                         scale |-> [current2 |-> Dist2(PositionAfter(a), PositionAfter(b)),
                                    initial2 |-> Dist2(touches[a].start, touches[b].start)]]>>
          ELSE \A k \in DOMAIN lastEmits' : lastEmits'[k].type # "pinch"]_vars

\* C29: a third tap released less than 300 ms after, and less than 10 px from,
\* the second release of a double tap is not paired with it: no second
\* doubleTap is emitted, and the third tap is the new baseline (its time and
\* position are the last tap's).
C29_NoTriplePairing ==
  (nTaps = 3 /\ prevTap.afterDouble /\ pairRel = "close")
  => /\ ~prevTap.paired
     /\ emitted["doubleTap"] = 1
     /\ lastTapTime = prevTap.time
     /\ lastTapPosition = prevTap.pos

\* three taps at one position within the double-tap window: one doubleTap
C29_Witness ==
  /\ nTaps = 3
  /\ prevTap.afterDouble
  /\ pairRel = "close"
  /\ prevTap.pos = Pt(0, 0)
  /\ now - prevTap.time < DOUBLE_TAP_DELAY
  /\ emitted["doubleTap"] = 1

(* ================ RadialInterface: momentum and rendering =============== *)

\* C31: the rotation a momentum frame applies to the ring never has the
\* direction opposite to the last rotation applied by the drag that started
\* the animation.
C31_MomentumDirection ==
  (lastFrame.ran /\ lastFrame.rotated)
    => lastFrame.applied * lastFrame.first.turn >= 0

\* C32: an element carries the dragging mark only while it is the element the
\* drag record names.
C32_DraggingFlagFollows ==
  \A b \in DOMAIN bubbles :
    "dragging" \in bubbles[b].classes => dragState.bubbleId = b

\* C33: immediately after any render (loadProject, re-center, goToRoot, parent
\* navigation, createChild) the positioned-node collection holds exactly the
\* centered node (the node renderBubbles builds the ring around), at level 0,
\* and the children of the centered node, each once at level 1, at a common
\* radius and at angles 2 PI / n apart, and nothing of the ring before.
C33_RingRecomputed ==
  lastNav.rendered =>
    LET centered == CenteredNode(currentProject, centerNode)
        children == currentProject.children[centered]
        n == Len(children)
    IN /\ DOMAIN bubbles = {centered} \cup {children[i] : i \in 1..n}
       /\ Cardinality(DOMAIN bubbles) = n + 1
       /\ bubbles[centered].level = 0
       /\ \A b \in DOMAIN bubbles : bubbles[b].classes = {}
       /\ \A i \in 1..n :
            /\ bubbles[children[i]].level = 1
            /\ bubbles[children[i]].radius = RingRadius
       /\ \A i \in 1..(n - 1) :
            bubbles[children[i + 1]].angle - bubbles[children[i]].angle
              = (2 * PI) \div n

\* a node was made under a node that a tap had centered
C33_Witness ==
  /\ lastNav.op = "create"
  /\ lastNav.rendered
  /\ centerNode = "tutorial"
  /\ Len(currentProject.children[centerNode]) = 4
  /\ Cardinality(DOMAIN bubbles) = 5

\* a tap's re-center has replaced the ring of the root
C33_WitnessRecenter ==
  /\ lastNav.op = "recenter"
  /\ lastNav.rendered
  /\ centerNode = "features"
  /\ "tutorial" \notin DOMAIN bubbles

\* C34: at most one momentum loop is scheduled at any time: whatever the
\* interleaving of pan events, gesture ends and animation frames, there are
\* never two pending momentum callbacks that will both rotate the ring and both
\* ask for another frame (no drag in progress, each velocity above the minimum).
C34_OneMomentumLoop ==
  ~dragState.isDragging
    => Cardinality({i \in DOMAIN loops : Abs(loops[i]) > minVelocity}) <= 1

\* C35: the centered node ends at the target of the most recent navigation
\* request (ring-element tap, goToRoot, parent navigation): once no re-center
\* timer is pending, the centered node is the node last asked for, so that the
\* timer of an earlier tap has not overwritten the center a later request set.
C35_LastRequestWins ==
  (recenter = <<>> /\ lastNav.requested # NoBubble)
    => centerNode = lastNav.requested

\* C37: once a project is loaded, viewState.centerNode identifies a node of the
\* currently loaded tree, after any sequence of loadProject, ring-element taps
\* and their delayed re-center, goToRoot, parent navigation and createChild.
C37_CenterNodeExists == FindNode(currentProject, centerNode)

\* C36: a tap whose target is inside no bubble element (the empty canvas) is
\* ignored without error: handleTap raises no exception, selects nothing and
\* emits nothing, and leaves the centered node, the ring and the drag record
\* as they were.
C36_CanvasTapIgnored ==
  [][(lastSelect'.at # 0 /\ lastSelect'.target = NoTarget)
       => /\ ~lastSelect'.threw
          /\ ~lastSelect'.called
          /\ lastOut' = <<>>
          /\ recenter' = recenter
          /\ centerNode' = centerNode
          /\ bubbles' = bubbles
          /\ dragState' = dragState]_vars

====
